---- MODULE Spec2Model ----
(***************************************************************************)
(* Domain crawl engine of seo-app: the BFS frontier of crawl_domain, the   *)
(* scope filter, the link-status prober with its crawl-scoped cache, and   *)
(* the crawl-job state machine that persists crawl_status.json.            *)
(*                                                                         *)
(* URLs are modelled as the character strings the program handles; the     *)
(* string helpers below are the Python str operations the code uses.       *)
(***************************************************************************)
EXTENDS Integers, Sequences, FiniteSets, TLC

(***************************************************************************)
(* Bounds of the model                                                     *)
(***************************************************************************)
\* largest page budget (max_pages) a target or the configuration carries
MaxPagesBound == 2

(***************************************************************************)
(* Python values                                                           *)
(***************************************************************************)
\* None of an Optional[str] field
None == "None"
\* None of an Optional[int] field (a status, max_pages)
NoneInt == -1

\* x or y, for an Optional[int] x
IntOr(x, y) == IF x = NoneInt \/ x = 0 THEN y ELSE x

(***************************************************************************)
(* Python str operations                                                   *)
(***************************************************************************)
StartsWith(s, p) == Len(s) >= Len(p) /\ SubSeq(s, 1, Len(p)) = p

EndsWith(s, p) == Len(s) >= Len(p) /\ SubSeq(s, Len(s) - Len(p) + 1, Len(s)) = p

\* s.find(p) from position i on, 1-based, 0 when absent
RECURSIVE FindFrom(_, _, _)
FindFrom(s, p, i) ==
  IF i + Len(p) - 1 > Len(s) THEN 0
  ELSE IF SubSeq(s, i, i + Len(p) - 1) = p THEN i
  ELSE FindFrom(s, p, i + 1)

\* s.find(p), 1-based, 0 when absent
Find(s, p) == FindFrom(s, p, 1)

\* p in s
Contains(s, p) == Find(s, p) # 0

\* s[n:]
From(s, n) == IF n >= Len(s) THEN "" ELSE SubSeq(s, n + 1, Len(s))

\* s.split(sep, n)[n] for a one-character sep: what follows the n-th sep
RECURSIVE AfterNth(_, _, _)
AfterNth(s, sep, n) ==
  IF n = 0 THEN s
  ELSE LET i == Find(s, sep) IN
       IF i = 0 THEN "" ELSE AfterNth(From(s, i), sep, n - 1)

\* s.split(sep)[-1]
RECURSIVE LastField(_, _)
LastField(s, sep) ==
  LET i == Find(s, sep) IN IF i = 0 THEN s ELSE LastField(From(s, i), sep)

\* sep.join(s.split(sep)[:-1])
ButLastField(s, sep) ==
  LET l == LastField(s, sep) IN
  IF Len(l) = Len(s) THEN "" ELSE SubSeq(s, 1, Len(s) - Len(l) - 1)

(***************************************************************************)
(* src/core/utils.py                                                       *)
(***************************************************************************)
is_http(u) == StartsWith(u, "http://") \/ StartsWith(u, "https://")

\* netloc of a URL or of a bare domain string, as tldextract isolates it
Netloc(u) ==
  LET i == Find(u, "://")
      rest == IF i = 0 THEN u ELSE From(u, i + 2)
      j == Find(rest, "/")
  IN IF j = 0 THEN rest ELSE SubSeq(rest, 1, j - 1)

\* registrable domain: the label under the public suffix plus the suffix
\* (the suffixes in use here, com and org, are single labels)
host_key(url) ==
  LET n == Netloc(url)
      suffix == LastField(n, ".")
      front  == ButLastField(n, ".")
  IN IF front = "" THEN n ELSE LastField(front, ".") \o "." \o suffix

\* canonicalize_url(safe_url_string(u)): drops the fragment and gives a
\* URL without a path the path "/"
norm_url(u) ==
  LET i == Find(u, "#")
      v == IF i = 0 THEN u ELSE SubSeq(u, 1, i - 1)
  IN IF is_http(v) /\ Find(From(v, Find(v, "://") + 2), "/") = 0 THEN v \o "/" ELSE v

\* dedup(seq): first occurrences of the non-empty items, in order
RECURSIVE dedup(_)
dedup(seq) ==
  IF seq = <<>> THEN <<>>
  ELSE LET front == dedup(SubSeq(seq, 1, Len(seq) - 1))
           x == seq[Len(seq)]
       IN IF x # "" /\ \A i \in 1..Len(front) : front[i] # x
          THEN Append(front, x) ELSE front

(***************************************************************************)
(* src/core/util_crawler.py                                                *)
(***************************************************************************)
\* DomainInput(domain, slug, start_urls, max_pages, allowed_paths, blocked_paths);
\* the slug only names files and is left out
DomainInput(domain, start_urls, budget, allowed_paths, blocked_paths) ==
  [domain |-> domain, start_urls |-> start_urls, max_pages |-> budget,
   allowed_paths |-> allowed_paths, blocked_paths |-> blocked_paths]

\* the path is_url_allowed_for_domain matches the rules against
UrlPath(url) ==
  IF Contains(From(url, 8), "/") THEN "/" \o AfterNth(url, "/", 3) ELSE "/"

\* is_url_allowed_for_domain without the comparison of the host keys
is_url_allowed_any_host(url, domain) ==
  LET path == UrlPath(url) IN
  IF \E i \in 1..Len(domain.blocked_paths) :
       domain.blocked_paths[i] # "" /\ Contains(path, domain.blocked_paths[i])
  THEN FALSE
  ELSE IF domain.allowed_paths # <<>>
       THEN \E i \in 1..Len(domain.allowed_paths) :
              domain.allowed_paths[i] # "" /\ Contains(path, domain.allowed_paths[i])
       ELSE TRUE

\* is_url_allowed_for_domain without the loop over blocked_paths
is_url_allowed_without_blocked(url, domain) ==
  LET path == UrlPath(url) IN
  IF host_key(url) # host_key(domain.domain) THEN FALSE
  ELSE IF domain.allowed_paths # <<>>
       THEN \E i \in 1..Len(domain.allowed_paths) :
              domain.allowed_paths[i] # "" /\ Contains(path, domain.allowed_paths[i])
       ELSE TRUE

\* is_url_allowed_for_domain: the host must be the target's, no blocked
\* path may occur in the path, and an allowed path must when any is given
is_url_allowed_for_domain(url, domain) ==
  LET path == UrlPath(url) IN
  IF host_key(url) # host_key(domain.domain) THEN FALSE
  ELSE IF \E i \in 1..Len(domain.blocked_paths) :
            domain.blocked_paths[i] # "" /\ Contains(path, domain.blocked_paths[i])
       THEN FALSE
       ELSE IF domain.allowed_paths # <<>>
            THEN \E i \in 1..Len(domain.allowed_paths) :
                   domain.allowed_paths[i] # "" /\ Contains(path, domain.allowed_paths[i])
            ELSE TRUE

\* an item of Input_domain.json: domain, start_urls, max_pages,
\* allowed_paths and blocked_paths, already of the types the code accepts
\* (max_pages an int or absent, the lists lists of str)
_normalize_domain_item(item) ==
  LET domain == item.domain
      urls0 == IF item.start_urls = <<>> /\ domain # ""
               THEN LET root == IF is_http(domain) THEN domain ELSE "https://" \o domain
                    IN <<IF EndsWith(root, "/") THEN root ELSE root \o "/">>
               ELSE item.start_urls
      urls == dedup([i \in 1..Len(urls0) |-> norm_url(urls0[i])])
      dom == IF domain = "" /\ urls # <<>> THEN urls[1] ELSE domain
  IN IF dom = "" THEN <<>>
     ELSE <<DomainInput(dom, urls, item.max_pages, item.allowed_paths, item.blocked_paths)>>

\* load_domain_inputs: the normalized items that have a start URL, in file order
RECURSIVE load_domain_inputs(_)
load_domain_inputs(items) ==
  IF items = <<>> THEN <<>>
  ELSE LET d == _normalize_domain_item(items[1]) IN
       (IF d # <<>> /\ d[1].start_urls # <<>> THEN d ELSE <<>>)
         \o load_domain_inputs(Tail(items))

(***************************************************************************)
(* backend/app/service_crawler.py: request helpers                         *)
(***************************************************************************)
\* body.domain carries no surrounding blanks here, so strip() changes nothing
_make_root_url(domain) ==
  LET d == IF StartsWith(domain, "http") THEN domain ELSE "https://" \o domain
  IN IF EndsWith(d, "/") THEN d ELSE d \o "/"

_domain_from_body(request) ==
  DomainInput(request.domain, <<_make_root_url(request.domain)>>, request.max_pages, <<>>, <<>>)

\* request is <<>> for a request without a body, else <<CrawlBody>>
_load_domains_from_request(request, items) ==
  IF request # <<>> THEN <<_domain_from_body(request[1])>> ELSE load_domain_inputs(items)

(***************************************************************************)
(* src/core/fetcher.py                                                     *)
(*                                                                         *)
(* What the network does for one fetch is the input net: the number nfail  *)
(* of attempts that end in httpx.RequestError before one gets a response,  *)
(* and that response (status, final_url after redirects, content).         *)
(***************************************************************************)
\* the retry loop: retries + 1 attempts, then the last error is raised
fetch_httpx(net, retries) ==
  IF net.nfail < retries + 1
  THEN [raised |-> FALSE, status |-> net.status, url |-> net.final_url,
        content |-> net.content]
  ELSE [raised |-> TRUE, exc |-> "RequestError"]

\* fetch with the default engine (httpx): (ok, meta, content), or the
\* exception of fetch_httpx, which fetch does not catch
fetch(url, net, retries) ==
  LET r == fetch_httpx(net, retries) IN
  IF r.raised THEN [raised |-> TRUE, exc |-> r.exc]
  ELSE [raised |-> FALSE,
        ok |-> 200 <= IntOr(r.status, 0) /\ IntOr(r.status, 0) < 400,
        status |-> r.status, final_url |-> r.url, content |-> r.content]

(***************************************************************************)
(* src/core/extractorV.py                                                  *)
(*                                                                         *)
(* A response body is a record: kind "empty" (b""), "unparsable" (lxml     *)
(* raises its ParserError on it) or "html"; an html body carries its <base href>, its      *)
(* canonical link, its og:url, its robots meta and the <a href> elements   *)
(* (href, anchor) of the whole page and of the readability fragment.       *)
(***************************************************************************)
SOCIAL_HOSTS == <<"facebook.com", "twitter.com", "x.com", "linkedin.com",
                  "pinterest.com", "wa.me", "api.whatsapp.com", "t.me">>

SKIP_SCHEMES == <<"javascript:", "mailto:", "tel:", "#">>

SKIP_PATTERNS == <<"/share", "/print", "/wp-json", "/amp", "/?replytocom=">>

\* scheme://netloc/ of a URL
Origin(u) == SubSeq(u, 1, Find(u, "://") + 2) \o Netloc(u) \o "/"

guess_base_url_from_doc_or_url(doc, file_hint_url) ==
  IF doc.base # None /\ is_http(doc.base) THEN doc.base
  ELSE IF doc.canonical # None /\ is_http(doc.canonical) THEN doc.canonical
  ELSE IF doc.og # None /\ is_http(doc.og) THEN doc.og
  ELSE IF file_hint_url # "" /\ is_http(file_hint_url) THEN Origin(file_hint_url)
  ELSE None

\* the URLs here are lower case and carry no port
_filter_link(u) ==
  IF ~is_http(u) THEN FALSE
  ELSE IF \E i \in 1..Len(SKIP_SCHEMES) : StartsWith(u, SKIP_SCHEMES[i]) THEN FALSE
  ELSE IF \E i \in 1..Len(SKIP_PATTERNS) : Contains(u, SKIP_PATTERNS[i]) THEN FALSE
  ELSE IF \E i \in 1..Len(SOCIAL_HOSTS) : Contains(Netloc(u), SOCIAL_HOSTS[i]) THEN FALSE
  ELSE TRUE

\* urljoin(base, href) for the hrefs in use: one with a scheme is kept,
\* a root-relative one replaces the path of base
urljoin(base, href) ==
  IF StartsWith(href, "/")
  THEN SubSeq(Origin(base), 1, Len(Origin(base)) - 1) \o href
  ELSE href

\* links_from_page_with_anchors / links_from_fragment_with_anchors
RECURSIVE links_with_anchors(_, _)
links_with_anchors(hrefs, base_url) ==
  IF hrefs = <<>> THEN <<>>
  ELSE LET a == hrefs[1]
           absu == IF base_url # None /\ ~is_http(a.href)
                   THEN urljoin(base_url, a.href) ELSE a.href
       IN (IF a.href = "" \/ ~_filter_link(absu) THEN <<>>
           ELSE <<[url |-> norm_url(absu), anchor |-> a.anchor]>>)
            \o links_with_anchors(Tail(hrefs), base_url)

\* first occurrence of every (url, anchor) pair
RECURSIVE _dedup_link_items(_)
_dedup_link_items(items) ==
  IF items = <<>> THEN <<>>
  ELSE LET front == _dedup_link_items(SubSeq(items, 1, Len(items) - 1))
           it == items[Len(items)]
       IN IF it.url # "" /\ \A i \in 1..Len(front) : front[i] # it
          THEN Append(front, it) ELSE front

\* the items whose registrable domain is b (same = TRUE) or is not, in order
RECURSIVE ItemsByHost(_, _, _)
ItemsByHost(items, b, same) ==
  IF items = <<>> THEN <<>>
  ELSE (IF (host_key(items[1].url) = b) = same THEN <<items[1]>> ELSE <<>>)
         \o ItemsByHost(Tail(items), b, same)

classify_link_items(items0, base_url) ==
  LET items == _dedup_link_items(items0) IN
  IF base_url = None
  THEN [internal_links |-> <<>>, external_links |-> items]
  ELSE LET b == host_key(base_url)
       IN [internal_links |-> ItemsByHost(items, b, TRUE),
           external_links |-> ItemsByHost(items, b, FALSE)]

\* html_bytes_to_json: the saved JSON (its page.meta_robots and its links),
\* or the exception lxml raises on a body it cannot parse
html_bytes_to_json(content, final_url) ==
  IF content.kind = "unparsable" THEN [raised |-> TRUE, exc |-> "ParserError"]
  ELSE LET base_url == guess_base_url_from_doc_or_url(content, final_url)
           links == classify_link_items(
                      links_with_anchors(content.article, base_url)
                        \o links_with_anchors(content.hrefs, base_url),
                      base_url)
       IN [raised |-> FALSE,
           data |-> [meta_robots |-> content.robots,
                     internal_links |-> links.internal_links,
                     external_links |-> links.external_links]]

(***************************************************************************)
(* Inputs: the requests, the Input_domain.json files, the configuration    *)
(* and the web the crawler meets                                           *)
(***************************************************************************)
UrlRoot == "https://example.com/"

UrlBlogA == "https://example.com/blog/a"

UrlSubBlog == "https://blog.example.com/x/blog/y"

UrlAdmin == "https://example.com/wp-admin/"

UrlOther == "https://other.org/"

Href(href, anchor) == [href |-> href, anchor |-> anchor]

Body(kind, base, canonical, og, robots, article, hrefs) ==
  [kind |-> kind, base |-> base, canonical |-> canonical, og |-> og,
   robots |-> robots, article |-> article, hrefs |-> hrefs]

EmptyBody == Body("empty", None, None, None, None, <<>>, <<>>)

UnparsableBody == Body("unparsable", None, None, None, None, <<>>, <<>>)

\* a page without links and without a robots meta
DocPlain == Body("html", None, None, None, None, <<>>, <<>>)

\* a noindex page that repeats a link and links to a blocked path, to
\* another domain and to a mail address
DocLinks ==
  Body("html", None, None, None, "NOINDEX, follow",
       <<Href(UrlBlogA, "a")>>,
       <<Href(UrlBlogA, "a"), Href(UrlAdmin, "admin"), Href(UrlBlogA, "again"),
         Href(UrlOther, "other"), Href("mailto:x@example.com", "mail")>>)

\* a page that links to the root, to a root-relative path and to a subdomain
DocCycle ==
  Body("html", None, None, None, "index, follow", <<>>,
       <<Href(UrlRoot, "home"), Href("/blog/a", "a"), Href(UrlSubBlog, "sub")>>)

\* a page that declares a canonical URL on another domain
DocBase ==
  Body("html", None, UrlOther, None, "", <<>>,
       <<Href(UrlBlogA, "a"), Href(UrlOther, "other")>>)

Bodies == {EmptyBody, UnparsableBody, DocPlain, DocLinks, DocCycle, DocBase}

\* statuses a page fetch ends with
PageStatuses == {200, 500}

\* statuses a link probe ends with
ProbeStatuses == {200, 404}

\* where a redirect of url leads
RedirectOf(url) == IF host_key(url) = "example.com" THEN UrlOther ELSE UrlRoot

\* the default of CrawlHttpSettings.retries
DefaultRetries == 2

Net(nfail, status, final_url, content) ==
  [nfail |-> nfail, status |-> status, final_url |-> final_url, content |-> content]

\* what the network can do for the fetch of the page url: a response, at
\* once or after failed attempts, or an error on every attempt; for a URL
\* without a host no attempt can succeed
PageNets(url, retries) ==
  IF Netloc(url) = "" THEN {Net(retries + 1, 200, url, DocPlain)}
  ELSE {Net(n, st, fu, c) : n \in {0}, st \in PageStatuses,
                            fu \in {url, RedirectOf(url)}, c \in Bodies}
         \cup {Net(n, 200, url, DocPlain) : n \in 1..(retries + 1)}

\* what the network can do for the probe of a link: a response, of which
\* only the status is read, or an error on every attempt
ProbeNets(retries) ==
  {Net(0, st, "", EmptyBody) : st \in ProbeStatuses}
    \cup {Net(retries + 1, 200, "", EmptyBody)}

\* the request bodies: a CrawlBody (domain, max_pages), or none
CrawlBody(domain, budget) == [domain |-> domain, max_pages |-> budget]

Requests ==
  {<<>>} \cup {<<CrawlBody("example.com", m)>> : m \in 0..MaxPagesBound}
         \cup {<<CrawlBody("https://other.org", 1)>>, <<CrawlBody("", 1)>>}

Item(domain, start_urls, budget, allowed_paths, blocked_paths) ==
  [domain |-> domain, start_urls |-> start_urls, max_pages |-> budget,
   allowed_paths |-> allowed_paths, blocked_paths |-> blocked_paths]

\* the contents of Input_domain.json
InputFiles ==
  { <<>>,
    <<Item("example.com", <<>>, MaxPagesBound, <<>>, <<"/wp-admin/">>)>>,
    <<Item("example.com", <<UrlAdmin, UrlRoot>>, MaxPagesBound, <<>>, <<"/wp-admin/">>)>>,
    <<Item("example.com", <<UrlBlogA, UrlRoot>>, MaxPagesBound, <<>>, <<>>)>>,
    <<Item("https://example.com", <<UrlRoot, UrlBlogA, UrlRoot, UrlOther>>,
           MaxPagesBound, <<"/blog/">>, <<>>)>>,
    <<Item("other.org", <<>>, 1, <<>>, <<>>),
      Item("", <<"https://example.com">>, 1, <<>>, <<>>)>> }

\* CrawlConfig: of http and limits, the fields the crawl reads
CrawlConfig(retries, max_pages_per_domain) ==
  [retries |-> retries, max_pages_per_domain |-> max_pages_per_domain]

\* a value of config_crawl.json: a number, or a text int() rejects
JsonInt(n) == [kind |-> "int", n |-> n]

JsonText == [kind |-> "text", n |-> 0]

\* config_crawl.json with http.retries and limits.max_pages_per_domain
ConfigFile(retries, max_pages_per_domain) ==
  [retries |-> retries, max_pages_per_domain |-> max_pages_per_domain]

\* the contents of config_crawl.json
ConfigFiles ==
  { ConfigFile(JsonInt(DefaultRetries), JsonInt(MaxPagesBound)),
    ConfigFile(JsonText, JsonInt(MaxPagesBound)),
    ConfigFile(JsonInt(DefaultRetries), JsonText) }

\* load_crawl_config: <<CrawlConfig>>, or <<>> when int() raises ValueError
load_crawl_config(file) ==
  IF file.retries.kind = "text" \/ file.max_pages_per_domain.kind = "text"
  THEN <<>>
  ELSE <<CrawlConfig(file.retries.n, file.max_pages_per_domain.n)>>

\* the configurations load_crawl_config returns
Configs ==
  {load_crawl_config(f)[1] : f \in {g \in ConfigFiles : load_crawl_config(g) # <<>>}}

\* every URL the crawler can meet in this web
UrlOtherBlogA == "https://other.org/blog/a"

UrlSubBlogA == "https://blog.example.com/blog/a"

AllUrls ==
  {UrlRoot, UrlBlogA, UrlSubBlog, UrlAdmin, UrlOther, UrlOtherBlogA, UrlSubBlogA}

\* every target a job can have
AllDomains ==
  UNION {{_load_domains_from_request(b, items)[i] :
            i \in 1..Len(_load_domains_from_request(b, items))} :
         b \in Requests, items \in InputFiles}

\* html_bytes_to_json, evaluated once for every body and final URL
ExtractedJson == [c \in Bodies, fu \in AllUrls |-> html_bytes_to_json(c, fu)]

(***************************************************************************)
(* src/core/domain_crawler.py: one page                                    *)
(***************************************************************************)
MAX_INTERNAL_LINKS_PER_PAGE == 30

MAX_EXTERNAL_LINKS_PER_PAGE == 10

\* seq[:n] without the cut
TakeAll(seq, n) == seq

\* seq[:n]
Take(seq, n) == SubSeq(seq, 1, IF Len(seq) < n THEN Len(seq) ELSE n)

UPPER == "ABCDEFGHIJKLMNOPQRSTUVWXYZ"

LOWER == "abcdefghijklmnopqrstuvwxyz"

\* s.lower()
RECURSIVE Lower(_)
Lower(s) ==
  IF s = "" THEN ""
  ELSE LET c == SubSeq(s, 1, 1)
           i == Find(UPPER, c)
       IN (IF i = 0 THEN c ELSE SubSeq(LOWER, i, i)) \o Lower(From(s, 1))

\* s.strip(), for blanks
RECURSIVE Strip(_)
Strip(s) ==
  IF StartsWith(s, " ") THEN Strip(From(s, 1))
  ELSE IF EndsWith(s, " ") THEN Strip(SubSeq(s, 1, Len(s) - 1))
  ELSE s

\* PageCrawlResult as crawl_single_url builds it; duration_ms, size_bytes
\* and encoding_guess are carried through unread and are left out
PageCrawlResult(url, final_url, status, ok, error, extracted_path) ==
  [url |-> url, final_url |-> final_url, status |-> status, ok |-> ok,
   error |-> error, extracted_path |-> extracted_path,
   meta_robots |-> None, index_status |-> None,
   internal_links |-> <<>>, external_links |-> <<>>]

\* crawl_single_url without the test of ok: every response that has a body
\* is extracted, whatever its status
crawl_single_url_any_status(url, net, retries) ==
  LET f == fetch(url, net, retries) IN
  IF f.raised THEN [raised |-> TRUE, exc |-> f.exc]
  ELSE LET final_url == IF f.final_url # "" THEN f.final_url ELSE url IN
       IF f.content.kind = "empty"
       THEN [raised |-> FALSE,
             res |-> PageCrawlResult(url, final_url, f.status, FALSE, "fetch_failed", None)]
       ELSE LET x == ExtractedJson[f.content, final_url] IN
            IF x.raised THEN [raised |-> TRUE, exc |-> x.exc]
            ELSE [raised |-> FALSE, data |-> x.data,
                  res |-> PageCrawlResult(url, final_url, f.status, TRUE, None, "saved")]

\* crawl_single_url: the page result and the JSON saved under its
\* extracted_path, or the exception of fetch or of html_bytes_to_json
crawl_single_url(url, net, retries) ==
  LET f == fetch(url, net, retries) IN
  IF f.raised THEN [raised |-> TRUE, exc |-> f.exc]
  ELSE LET final_url == IF f.final_url # "" THEN f.final_url ELSE url IN
       IF ~f.ok \/ f.content.kind = "empty"
       THEN [raised |-> FALSE,
             res |-> PageCrawlResult(url, final_url, f.status, FALSE, "fetch_failed", None)]
       ELSE LET x == ExtractedJson[f.content, final_url] IN
            IF x.raised THEN [raised |-> TRUE, exc |-> x.exc]
            ELSE [raised |-> FALSE, data |-> x.data,
                  res |-> PageCrawlResult(url, final_url, f.status, TRUE, None, "saved")]

\* LinkUrls without the call of is_url_allowed_for_domain
RECURSIVE LinkUrlsUnscoped(_, _, _)
LinkUrlsUnscoped(items, domain, scoped) ==
  IF items = <<>> THEN <<>>
  ELSE LET u == items[1].url IN
       (IF is_http(u) THEN <<u>> ELSE <<>>)
         \o LinkUrlsUnscoped(Tail(items), domain, scoped)

\* the urls of items that are http(s) and, for scoped = TRUE, allowed for domain
LinkUrls(items, domain, scoped) ==
  LET Kept(it) == is_http(it.url) /\ (scoped => is_url_allowed_for_domain(it.url, domain))
      kept == SelectSeq(items, Kept)
  IN [i \in 1..Len(kept) |-> kept[i].url]

\* first occurrences, in order (the seen_int / seen_ext loops)
FirstOccurrences(seq) ==
  LET first == {i \in 1..Len(seq) : \A j \in 1..(i - 1) : seq[j] # seq[i]}
  IN [k \in 1..Cardinality(first) |->
        seq[CHOOSE i \in first : Cardinality({j \in first : j <= i}) = k]]

\* _extract_links_and_index_info on the JSON that was just saved
_extract_links_and_index_info(data, domain) ==
  LET robots == data.meta_robots
      index_status ==
        IF robots # None /\ Strip(robots) # ""
        THEN (IF Contains(Lower(robots), "noindex") THEN "noindex" ELSE "index")
        ELSE None
      internal == FirstOccurrences(LinkUrls(data.internal_links, domain, TRUE))
      external == FirstOccurrences(LinkUrls(data.external_links, domain, FALSE))
  IN [internal_urls_for_bfs |-> Take(internal, MAX_INTERNAL_LINKS_PER_PAGE),
      internal_links_urls |-> Take(internal, MAX_INTERNAL_LINKS_PER_PAGE),
      external_links_urls |-> Take(external, MAX_EXTERNAL_LINKS_PER_PAGE),
      meta_robots |-> robots,
      index_status |-> index_status]

\* _extract_links_and_index_info, evaluated once for every saved JSON and target
LinkInfo ==
  [data \in {ExtractedJson[k].data : k \in {k \in DOMAIN ExtractedJson : ~ExtractedJson[k].raised}},
   domain \in AllDomains |-> _extract_links_and_index_info(data, domain)]

(***************************************************************************)
(* src/core/domain_crawler.py: the link-status prober                      *)
(*                                                                         *)
(* cache is the dict url -> status of one crawl, a function on the URLs    *)
(* it holds.  nets[u] is what the network does for the probe of u.         *)
(***************************************************************************)
\* _probe_link_status_single without cache[url] = status
_probe_link_status_single_unstored(url, cache, net, retries) ==
  IF url \in DOMAIN cache
  THEN [raised |-> FALSE, status |-> cache[url], cache |-> cache, fetched |-> FALSE]
  ELSE LET f == fetch(url, net, retries) IN
       IF f.raised
       THEN [raised |-> TRUE, status |-> NoneInt, cache |-> cache, fetched |-> TRUE]
       ELSE [raised |-> FALSE, status |-> f.status, cache |-> cache, fetched |-> TRUE]

\* _probe_link_status_single: the status, the cache after the call, and
\* whether fetch was called; raised when fetch raised
_probe_link_status_single(url, cache, net, retries) ==
  IF url \in DOMAIN cache
  THEN [raised |-> FALSE, status |-> cache[url], cache |-> cache, fetched |-> FALSE]
  ELSE LET f == fetch(url, net, retries) IN
       IF f.raised
       THEN [raised |-> TRUE, status |-> NoneInt, cache |-> cache, fetched |-> TRUE]
       ELSE [raised |-> FALSE, status |-> f.status,
             cache |-> (url :> f.status) @@ cache, fetched |-> TRUE]

\* the pool without cache[u] = None in the except branch
RECURSIVE ProbePoolUncached(_, _, _, _)
ProbePoolUncached(to_fetch, acc, nets, retries) ==
  IF to_fetch = <<>> THEN acc
  ELSE LET u == to_fetch[1]
           r == _probe_link_status_single(u, acc.cache, nets[u], retries)
           status == IF r.raised THEN NoneInt ELSE r.status
       IN ProbePoolUncached(Tail(to_fetch),
                    [results |-> (u :> status) @@ acc.results,
                     cache |-> r.cache,
                     fetched |-> IF r.fetched THEN Append(acc.fetched, u) ELSE acc.fetched,
                     raised |-> IF r.raised THEN acc.raised \cup {u} ELSE acc.raised],
                    nets, retries)

\* the pool of _probe_link_status_bulk over to_fetch; every worker writes
\* its own key, so the order of completion does not show in the outcome
RECURSIVE ProbePool(_, _, _, _)
ProbePool(to_fetch, acc, nets, retries) ==
  IF to_fetch = <<>> THEN acc
  ELSE LET u == to_fetch[1]
           r == _probe_link_status_single(u, acc.cache, nets[u], retries)
           status == IF r.raised THEN NoneInt ELSE r.status
           cache == IF r.raised THEN (u :> NoneInt) @@ r.cache ELSE r.cache
       IN ProbePool(Tail(to_fetch),
                    [results |-> (u :> status) @@ acc.results,
                     cache |-> cache,
                     fetched |-> IF r.fetched THEN Append(acc.fetched, u) ELSE acc.fetched,
                     raised |-> IF r.raised THEN acc.raised \cup {u} ELSE acc.raised],
                    nets, retries)

\* the URLs of urls that satisfy (u in cache) = cached, in order
RECURSIVE ByCached(_, _, _)
ByCached(urls, cache, cached) ==
  IF urls = <<>> THEN <<>>
  ELSE (IF (urls[1] \in DOMAIN cache) = cached THEN <<urls[1]>> ELSE <<>>)
         \o ByCached(Tail(urls), cache, cached)

\* _probe_link_status_bulk: results, the cache after the call, and the
\* URLs fetch was called for
_probe_link_status_bulk(urls, cache, nets, retries) ==
  LET hits == ByCached(urls, cache, TRUE)
      to_fetch == ByCached(urls, cache, FALSE)
      results == [u \in {hits[i] : i \in 1..Len(hits)} |-> cache[u]]
  IN ProbePool(to_fetch,
               [results |-> results, cache |-> cache, fetched |-> <<>>, raised |-> {}],
               nets, retries)

\* dict.setdefault
SetDefault(cache, key, value) ==
  IF key \in DOMAIN cache THEN cache ELSE (key :> value) @@ cache

\* [{"url": u, "status": statuses.get(u)} for u in urls]
LinkRecords(urls, statuses) ==
  [i \in 1..Len(urls) |->
     [url |-> urls[i],
      status |-> IF urls[i] \in DOMAIN statuses THEN statuses[urls[i]] ELSE NoneInt]]

(***************************************************************************)
(* State                                                                   *)
(***************************************************************************)
VARIABLES
  statusFile,         \* crawl_status.json: <<>> when missing, else <<document>>
  statusLog,          \* the statuses written to crawl_status.json, in order
  pc,                 \* where the job is: "idle", "pending", "running" (between
                      \* targets), "crawl" (head of the BFS loop), "expand" (the
                      \* enqueue loop), "finished", "escaped"
  body,               \* the request body, <<>> or <<CrawlBody>>
  cfg,                \* run_crawl_job_sync: cfg
  domains,            \* run_crawl_job_sync: domains
  target,             \* index in domains of the target being crawled
  reports_out,        \* run_crawl_job_sync: reports_out
  max_pages,          \* crawl_domain: max_pages
  pages,              \* crawl_domain: pages
  queue,              \* crawl_domain: queue
  seen,               \* crawl_domain: seen
  link_status_cache,  \* crawl_domain: link_status_cache
  bfs,                \* what is left of info["internal_urls_for_bfs"]
  probe_calls,        \* the URLs a probe fetch was issued for in this crawl
  probe_raised,       \* the URLs whose probe raised in this crawl
  enqueued,           \* the URLs appended to queue in this crawl, in order, each
                      \* with its distance in links from the seeds
  link_data,          \* LinksSpec: the extracted JSON of a page, <<>> or <<data>>
  link_page,          \* LinksSpec: the link records of that page, <<>> or <<page>>
  batches,            \* PoolSpec: the URL lists of the page still to be probed
  pool_queue,         \* PoolSpec: the probes submitted to the executor, not started
  in_flight,          \* PoolSpec: the URLs whose probe runs in a worker thread
  completed,          \* PoolSpec: the futures that are done and not yet yielded
  futures,            \* PoolSpec: the URLs of future_to_url not yet yielded
  job_pc,             \* JobsSpec: where each job is: "new", "pending", "running",
                      \* "finished"
  accepted,           \* JobsSpec: the jobs start_crawl_job accepted, in order
  read_status         \* what GET /crawl/status returned last: <<>> or <<CrawlStatus>>

vars == <<statusFile, statusLog, pc, body, cfg, domains, target, reports_out,
          max_pages, pages, queue, seen, link_status_cache, bfs, probe_calls,
          probe_raised, enqueued, read_status, link_data, link_page,
          batches, pool_queue, in_flight, completed, futures, job_pc, accepted>>

crawlVars == <<max_pages, pages, queue, seen, link_status_cache, bfs, probe_calls,
               probe_raised, enqueued>>

jobVars == <<body, cfg, domains, target, reports_out>>

\* the variables the job does not touch: those of the other specifications
poolVars == <<batches, pool_queue, in_flight, completed, futures>>

jobsVars == <<job_pc, accepted>>

otherVars == <<read_status, link_data, link_page, poolVars, jobsVars>>

\* the job ids uuid4 hands out in JobsSpec
Jobs == {"job-1", "job-2", "job-3"}

\* no job of JobsSpec was accepted
JobsIdle ==
  /\ job_pc = [j \in Jobs |-> "new"]
  /\ accepted = <<>>

\* no executor is at work
PoolIdle ==
  /\ batches = <<>>
  /\ pool_queue = <<>>
  /\ in_flight = {}
  /\ completed = {}
  /\ futures = {}

\* the only job of a run
JobId == "job-1"

EmptyDict == [u \in {} |-> NoneInt]

SeqToSet(seq) == {seq[i] : i \in 1..Len(seq)}

\* _write_status_raw
WriteStatus(doc) ==
  /\ statusFile' = <<doc>>
  /\ statusLog' = Append(statusLog, doc.status)

\* the document: reports None is written as <<>>; of the message only the
\* exception of a failed job is kept
StatusDoc(status, message, reports) ==
  [job_id |-> JobId, status |-> status, message |-> message, reports |-> reports]

Init ==
  /\ statusFile = <<>>
  /\ statusLog = <<>>
  /\ pc = "idle"
  /\ body = <<>>
  /\ cfg = CrawlConfig(DefaultRetries, MaxPagesBound)
  /\ domains = <<>>
  /\ target = 0
  /\ reports_out = <<>>
  /\ max_pages = 0
  /\ pages = <<>>
  /\ queue = <<>>
  /\ seen = {}
  /\ link_status_cache = EmptyDict
  /\ bfs = <<>>
  /\ probe_calls = <<>>
  /\ probe_raised = {}
  /\ enqueued = <<>>
  /\ read_status = <<>>
  /\ link_data = <<>>
  /\ link_page = <<>>
  /\ PoolIdle
  /\ JobsIdle

(***************************************************************************)
(* backend/app/service_crawler.py: the job                                 *)
(***************************************************************************)
\* POST /crawl/: start_crawl_job writes the pending document (reports None)
\* and the worker is scheduled with the body
start_crawl_job ==
  /\ pc = "idle"
  /\ UNCHANGED otherVars
  /\ \E b \in Requests : body' = b
  /\ WriteStatus(StatusDoc("pending", "scheduled", <<>>))
  /\ pc' = "pending"
  /\ UNCHANGED <<cfg, domains, target, reports_out>>
  /\ UNCHANGED crawlVars

\* run_crawl_job_sync up to the loop: configuration and targets are loaded
\* and the running document is written
RunBegin ==
  /\ pc = "pending"
  /\ UNCHANGED otherVars
  /\ \E file \in ConfigFiles, items \in (IF body = <<>> THEN InputFiles ELSE {<<>>}) :
       /\ load_crawl_config(file) # <<>>
       /\ cfg' = load_crawl_config(file)[1]
       /\ domains' = _load_domains_from_request(body, items)
  /\ WriteStatus(StatusDoc("running", "Running crawl", <<>>))
  /\ reports_out' = <<>>
  /\ target' = 1
  /\ pc' = "running"
  /\ UNCHANGED body
  /\ UNCHANGED crawlVars

\* load_crawl_config raises on a configuration value int() rejects; this
\* is outside the try of run_crawl_job_sync, and the background task of
\* start_crawl only prints the exception: the worker ends
RunEscapes ==
  /\ pc = "pending"
  /\ UNCHANGED otherVars
  /\ \E file \in ConfigFiles : load_crawl_config(file) = <<>>
  /\ pc' = "escaped"
  /\ UNCHANGED <<statusFile, statusLog>>
  /\ UNCHANGED jobVars
  /\ UNCHANGED crawlVars

\* the except branch followed by the write of the done document
JobFailsThenDone(e) ==
  /\ statusFile' = <<StatusDoc("done", "Completed crawl", reports_out)>>
  /\ statusLog' = statusLog \o <<"failed", "done">>
  /\ pc' = "finished"

\* the except branch writing the reports of the running document
JobFailsWithoutReports(e) ==
  /\ WriteStatus(StatusDoc("failed", "Error: " \o e, <<>>))
  /\ pc' = "finished"

\* the except branch of run_crawl_job_sync, for the exception e
JobFails(e) ==
  /\ WriteStatus(StatusDoc("failed", "Error: " \o e, reports_out))
  /\ pc' = "finished"

\* after the last target: the done document
JobDone ==
  /\ pc = "running"
  /\ UNCHANGED otherVars
  /\ target > Len(domains)
  /\ WriteStatus(StatusDoc("done", "Completed crawl", reports_out))
  /\ pc' = "finished"
  /\ UNCHANGED jobVars
  /\ UNCHANGED crawlVars

(***************************************************************************)
(* src/core/domain_crawler.py: crawl_domain                                *)
(***************************************************************************)
\* the seed loop
RECURSIVE SeedQueue(_, _, _)
SeedQueue(start_urls, domain, q) ==
  IF start_urls = <<>> THEN q
  ELSE LET u == start_urls[1] IN
       SeedQueue(Tail(start_urls), domain,
                 IF is_url_allowed_for_domain(u, domain) /\ u \notin SeqToSet(q)
                 THEN Append(q, u) ELSE q)

\* the condition of the BFS loop with <= for <
LoopConditionInclusive(q, ps, budget) == q # <<>> /\ Len(ps) <= budget

\* seen.add(url) left out
MarkSeenDropped(s, url) == s

\* the condition of the BFS loop
LoopCondition(q, ps, budget) == q # <<>> /\ Len(ps) < budget

\* seen.add(url)
MarkSeen(s, url) == s \cup {url}

\* crawl_domain up to the BFS loop
CrawlBegin ==
  /\ pc = "running"
  /\ UNCHANGED otherVars
  /\ target <= Len(domains)
  /\ LET domain == domains[target] IN
       /\ max_pages' = IntOr(domain.max_pages, cfg.max_pages_per_domain)
       /\ queue' = SeedQueue(domain.start_urls, domain, <<>>)
       /\ enqueued' = [i \in 1..Len(queue') |-> [url |-> queue'[i], depth |-> 0]]
  /\ pages' = <<>>
  /\ seen' = {}
  /\ link_status_cache' = EmptyDict
  /\ bfs' = <<>>
  /\ probe_calls' = <<>>
  /\ probe_raised' = {}
  /\ pc' = "crawl"
  /\ UNCHANGED <<statusFile, statusLog>>
  /\ UNCHANGED jobVars

\* the page dict run_crawl_job_sync builds from a PageCrawlResult
PageDict(p) ==
  [url |-> p.url, final_url |-> p.final_url, status |-> p.status, ok |-> p.ok,
   error |-> p.error, extracted_path |-> p.extracted_path,
   meta_robots |-> p.meta_robots, index_status |-> p.index_status,
   internal_links |-> [i \in 1..Len(p.internal_links) |->
                         [url |-> p.internal_links[i].url,
                          status |-> p.internal_links[i].status]],
   external_links |-> [i \in 1..Len(p.external_links) |->
                         [url |-> p.external_links[i].url,
                          status |-> p.external_links[i].status]]]

\* the BFS loop has ended: crawl_domain returns its report and
\* run_crawl_job_sync appends it to reports_out
CrawlEnd ==
  /\ pc = "crawl"
  /\ UNCHANGED otherVars
  /\ ~LoopCondition(queue, pages, max_pages)
  /\ reports_out' = Append(reports_out,
                           [domain |-> domains[target].domain,
                            pages |-> [i \in 1..Len(pages) |-> PageDict(pages[i])]])
  /\ target' = target + 1
  /\ pc' = "running"
  /\ UNCHANGED <<statusFile, statusLog, body, cfg, domains>>
  /\ UNCHANGED crawlVars

\* the probes of one page: the internal batch, then the external batch
ProbePage(info, cache, nets, retries) ==
  LET int == _probe_link_status_bulk(info.internal_links_urls, cache, nets, retries)
      ext == _probe_link_status_bulk(info.external_links_urls, int.cache, nets, retries)
  IN [internal_statuses |-> int.results, external_statuses |-> ext.results,
      cache |-> ext.cache, fetched |-> int.fetched \o ext.fetched,
      raised |-> int.raised \cup ext.raised]

\* the page has links: both batches are probed under some behaviour nets
\* of the network, the link records are attached to the page, and the
\* enqueue loop is entered
AttachLinks(res, info, p) ==
  /\ pages' = Append(pages,
       [res EXCEPT
          !.meta_robots = info.meta_robots,
          !.index_status = info.index_status,
          !.internal_links = LinkRecords(info.internal_links_urls, p.internal_statuses),
          !.external_links = LinkRecords(info.external_links_urls, p.external_statuses)])
  /\ link_status_cache' = p.cache
  /\ probe_calls' = probe_calls \o p.fetched
  /\ probe_raised' = probe_raised \cup p.raised
  /\ bfs' = info.internal_urls_for_bfs
  /\ pc' = IF info.internal_urls_for_bfs = <<>> THEN "crawl" ELSE "expand"

\* the branch of res.ok and res.extracted_path, for the info of the page
ProbeLinks(res, info, cache1) ==
  \E nets \in [(SeqToSet(info.internal_links_urls)
                  \cup SeqToSet(info.external_links_urls)) \ DOMAIN cache1
               -> ProbeNets(cfg.retries)] :
    AttachLinks(res, info, ProbePage(info, cache1, nets, cfg.retries))

\* pages.append(res), the two setdefault calls, and the rest of the pass
AppendPage(r, res) ==
  IF res.ok /\ res.extracted_path # None
  THEN ProbeLinks(res, LinkInfo[r.data, domains[target]],
                  SetDefault(SetDefault(link_status_cache, res.final_url, res.status),
                             res.url, res.status))
  ELSE /\ pages' = Append(pages, res)
       /\ link_status_cache' =
            SetDefault(SetDefault(link_status_cache, res.final_url, res.status),
                       res.url, res.status)
       /\ UNCHANGED <<pc, bfs, probe_calls, probe_raised>>

\* the pass for a URL not seen before, r being what crawl_single_url did
VisitUrl(url, r) ==
  /\ queue' = Tail(queue)
  /\ seen' = MarkSeen(seen, url)
  /\ IF r.raised
     THEN /\ JobFails(r.exc)
          /\ UNCHANGED <<pages, link_status_cache, bfs, probe_calls, probe_raised>>
     ELSE /\ UNCHANGED <<statusFile, statusLog>>
          /\ AppendPage(r, r.res)

\* one pass of the BFS loop up to the enqueue loop: pop, fetch and extract,
\* append the page, probe its links and attach the link records
CrawlPage ==
  /\ pc = "crawl"
  /\ UNCHANGED otherVars
  /\ LoopCondition(queue, pages, max_pages)
  /\ IF Head(queue) \in seen
     THEN /\ queue' = Tail(queue)
          /\ UNCHANGED <<statusFile, statusLog, pc, pages, seen, link_status_cache,
                         bfs, probe_calls, probe_raised>>
     ELSE \E net \in PageNets(Head(queue), cfg.retries) :
            VisitUrl(Head(queue), crawl_single_url(Head(queue), net, cfg.retries))
  /\ UNCHANGED <<max_pages, enqueued>>
  /\ UNCHANGED jobVars

\* the distance from the seeds of the page whose links are being enqueued
DepthOfLastPage ==
  LET url == pages[Len(pages)].url
  IN (CHOOSE e \in SeqToSet(enqueued) : e.url = url).depth

\* the enqueue loop with queue.insert(0, nu) for queue.append(nu)
EnqueueAtFront ==
  /\ pc = "expand"
  /\ UNCHANGED otherVars
  /\ LET nu == Head(bfs) IN
     IF nu \notin seen /\ nu \notin SeqToSet(queue)
     THEN /\ queue' = <<nu>> \o queue
          /\ enqueued' = Append(enqueued, [url |-> nu, depth |-> DepthOfLastPage + 1])
          /\ bfs' = IF Len(pages) + Len(queue') >= max_pages THEN <<>> ELSE Tail(bfs)
     ELSE /\ queue' = queue
          /\ enqueued' = enqueued
          /\ bfs' = Tail(bfs)
  /\ pc' = IF bfs' = <<>> THEN "crawl" ELSE "expand"
  /\ UNCHANGED <<statusFile, statusLog, max_pages, pages, seen, link_status_cache,
                 probe_calls, probe_raised>>
  /\ UNCHANGED jobVars

\* the enqueue loop without the test "nu not in seen and nu not in queue"
EnqueueUnchecked ==
  /\ pc = "expand"
  /\ UNCHANGED otherVars
  /\ queue' = Append(queue, Head(bfs))
  /\ enqueued' = Append(enqueued, [url |-> Head(bfs), depth |-> DepthOfLastPage + 1])
  /\ bfs' = IF Len(pages) + Len(queue') >= max_pages THEN <<>> ELSE Tail(bfs)
  /\ pc' = IF bfs' = <<>> THEN "crawl" ELSE "expand"
  /\ UNCHANGED <<statusFile, statusLog, max_pages, pages, seen, link_status_cache,
                 probe_calls, probe_raised>>
  /\ UNCHANGED jobVars

\* the enqueue loop breaking one link early: the budget is tested before the
\* append and counts the link about to be added
EnqueueBudgetEarly ==
  /\ pc = "expand"
  /\ UNCHANGED otherVars
  /\ LET nu == Head(bfs) IN
     IF Len(pages) + Len(queue) + 1 >= max_pages
     THEN /\ queue' = queue
          /\ enqueued' = enqueued
          /\ bfs' = <<>>
     ELSE IF nu \notin seen /\ nu \notin SeqToSet(queue)
     THEN /\ queue' = Append(queue, nu)
          /\ enqueued' = Append(enqueued, [url |-> nu, depth |-> DepthOfLastPage + 1])
          /\ bfs' = Tail(bfs)
     ELSE /\ queue' = queue
          /\ enqueued' = enqueued
          /\ bfs' = Tail(bfs)
  /\ pc' = IF bfs' = <<>> THEN "crawl" ELSE "expand"
  /\ UNCHANGED <<statusFile, statusLog, max_pages, pages, seen, link_status_cache,
                 probe_calls, probe_raised>>
  /\ UNCHANGED jobVars

\* one pass of the enqueue loop over info["internal_urls_for_bfs"]
Enqueue ==
  /\ pc = "expand"
  /\ UNCHANGED otherVars
  /\ LET nu == Head(bfs) IN
     IF nu \notin seen /\ nu \notin SeqToSet(queue)
     THEN /\ queue' = Append(queue, nu)
          /\ enqueued' = Append(enqueued, [url |-> nu, depth |-> DepthOfLastPage + 1])
          /\ bfs' = IF Len(pages) + Len(queue') >= max_pages THEN <<>> ELSE Tail(bfs)
     ELSE /\ queue' = queue
          /\ enqueued' = enqueued
          /\ bfs' = Tail(bfs)
  /\ pc' = IF bfs' = <<>> THEN "crawl" ELSE "expand"
  /\ UNCHANGED <<statusFile, statusLog, max_pages, pages, seen, link_status_cache,
                 probe_calls, probe_raised>>
  /\ UNCHANGED jobVars

Next ==
  \/ start_crawl_job
  \/ RunBegin
  \/ RunEscapes
  \/ CrawlBegin
  \/ CrawlPage
  \/ Enqueue
  \/ CrawlEnd
  \/ JobDone

Spec == Init /\ [][Next]_vars

(***************************************************************************)
(* backend/app/service_crawler.py: the reader of crawl_status.json         *)
(*                                                                         *)
(* For the reader the file is whatever is on disk: statusFile is <<>>      *)
(* when the file is missing, else <<content>>, the content a text that is  *)
(* not JSON or the Python value json.load makes of it.                     *)
(***************************************************************************)
\* a page of a report in the file: a dict with or without the fields
\* PageResult requires
PageRaw(required) == [required |-> required]

\* an item of "reports": a dict with its "pages", or another value
ReportRaw(type, page_items) == [type |-> type, pages |-> page_items]

\* the value of "reports": the key is absent or the value is null, a
\* number or a list
ReportsRaw(kind, items) == [kind |-> kind, items |-> items]

\* a Python value: its type and truth value and, of a dict, "status"
\* (<<>> when the key is absent) and "reports"
PyValue(type, falsy, status, reports) ==
  [type |-> type, falsy |-> falsy, status |-> status, reports |-> reports]

\* {}
EmptyRaw == PyValue("dict", TRUE, <<>>, ReportsRaw("absent", <<>>))

NotJson == [kind |-> "text", value |-> EmptyRaw]

Json(value) == [kind |-> "json", value |-> value]

\* the statuses a job document carries
JobStatuses == {"pending", "running", "done", "failed"}

\* what "reports" can hold
ReportsOnDisk ==
  { ReportsRaw("absent", <<>>), ReportsRaw("null", <<>>), ReportsRaw("int", <<>>),
    ReportsRaw("list", <<>>),
    ReportsRaw("list", <<ReportRaw("int", <<>>)>>),
    ReportsRaw("list", <<ReportRaw("dict", <<>>)>>),
    ReportsRaw("list", <<ReportRaw("dict", <<PageRaw(TRUE)>>)>>),
    ReportsRaw("list", <<ReportRaw("dict", <<PageRaw(FALSE)>>)>>),
    ReportsRaw("list", <<ReportRaw("dict", <<PageRaw(TRUE), PageRaw(FALSE)>>)>>) }

\* what the reader can find on disk: no file, a text that is not JSON,
\* empty and non-empty JSON values that are no dict, and dicts with and
\* without "status" and "reports"
StatusFilesOnDisk ==
  {<<>>, <<NotJson>>}
    \cup {<<Json(PyValue(t, f, <<>>, ReportsRaw("absent", <<>>)))>> :
            t \in {"dict", "list", "int", "str", "NoneType"}, f \in {TRUE}}
    \cup {<<Json(PyValue(t, FALSE, <<>>, ReportsRaw("absent", <<>>)))>> :
            t \in {"list", "int", "str"}}
    \cup {<<Json(PyValue("dict", FALSE, st, r))>> :
            st \in {<<>>} \cup {<<x>> : x \in JobStatuses \cup {"bogus"}},
            r \in ReportsOnDisk}

\* _read_status_raw: {} when the file is missing or json.load raises
_read_status_raw(file) ==
  IF file = <<>> THEN EmptyRaw
  ELSE IF file[1].kind = "text" THEN EmptyRaw
  ELSE file[1].value

\* CrawlStatus, of which job_id and status are kept
CrawlStatus(job_id, status) == [job_id |-> job_id, status |-> status]

\* the try block of get_crawl_status raises: raw has no get(), "reports"
\* is a number, an item of it has no get(), or PageResult(**p) lacks a
\* required field
ReadRaises(raw) ==
  \/ raw.type # "dict"
  \/ raw.reports.kind = "int"
  \/ \E i \in 1..Len(raw.reports.items) :
       \/ raw.reports.items[i].type # "dict"
       \/ \E j \in 1..Len(raw.reports.items[i].pages) :
            ~raw.reports.items[i].pages[j].required

\* get_crawl_status
get_crawl_status(file) ==
  LET raw == _read_status_raw(file) IN
  IF raw.falsy THEN CrawlStatus("none", "idle")
  ELSE IF ReadRaises(raw) THEN CrawlStatus("invalid", "error")
  ELSE CrawlStatus(JobId, IF raw.status = <<>> THEN "" ELSE raw.status[1])

\* GET /crawl/status
GetStatus ==
  /\ read_status' = <<get_crawl_status(statusFile)>>
  /\ UNCHANGED <<link_data, link_page, poolVars, jobsVars>>
  /\ UNCHANGED <<statusFile, statusLog, pc>>
  /\ UNCHANGED jobVars
  /\ UNCHANGED crawlVars

ReaderInit ==
  /\ statusFile \in StatusFilesOnDisk
  /\ statusLog = <<>>
  /\ pc = "idle"
  /\ body = <<>>
  /\ cfg = CrawlConfig(DefaultRetries, MaxPagesBound)
  /\ domains = <<>>
  /\ target = 0
  /\ reports_out = <<>>
  /\ max_pages = 0
  /\ pages = <<>>
  /\ queue = <<>>
  /\ seen = {}
  /\ link_status_cache = EmptyDict
  /\ bfs = <<>>
  /\ probe_calls = <<>>
  /\ probe_raised = {}
  /\ enqueued = <<>>
  /\ read_status = <<>>
  /\ link_data = <<>>
  /\ link_page = <<>>
  /\ PoolIdle
  /\ JobsIdle

ReaderNext == GetStatus

ReaderSpec == ReaderInit /\ [][ReaderNext]_vars

(***************************************************************************)
(* src/core/domain_crawler.py: _extract_links_and_index_info on pages      *)
(* with many links                                                         *)
(***************************************************************************)
\* n URLs on host, all different
ManyUrls(host, n) ==
  [i \in 1..n |-> "https://" \o host \o "/p" \o SubSeq(LOWER \o UPPER, i, i)]

\* the items of links["internal_links"] or links["external_links"] for
\* urls: a mail address first, and every item twice when repeated
LinkItems(urls, repeated) ==
  LET once == <<Href("mailto:x@example.com", "mail")>>
                \o [i \in 1..Len(urls) |-> Href(urls[i], "a")]
  IN [i \in 1..Len(once) |-> [url |-> once[i].href, anchor |-> once[i].anchor]]
       \o (IF repeated
           THEN [i \in 1..Len(urls) |-> [url |-> urls[i], anchor |-> "again"]]
           ELSE <<>>)

\* the numbers of internal links around MAX_INTERNAL_LINKS_PER_PAGE
InternalCounts ==
  {0, 1, MAX_INTERNAL_LINKS_PER_PAGE - 1, MAX_INTERNAL_LINKS_PER_PAGE,
   MAX_INTERNAL_LINKS_PER_PAGE + 1, MAX_INTERNAL_LINKS_PER_PAGE + 5}

\* the numbers of external links around MAX_EXTERNAL_LINKS_PER_PAGE
ExternalCounts ==
  {0, 1, MAX_EXTERNAL_LINKS_PER_PAGE - 1, MAX_EXTERNAL_LINKS_PER_PAGE,
   MAX_EXTERNAL_LINKS_PER_PAGE + 1, MAX_EXTERNAL_LINKS_PER_PAGE + 5}

\* the extracted JSON of pages of example.com with that many links
LinkDatas ==
  {[meta_robots |-> None,
    internal_links |-> LinkItems(ManyUrls("example.com", n), r),
    external_links |-> LinkItems(ManyUrls("other.org", m), r)] :
     n \in InternalCounts, m \in ExternalCounts, r \in BOOLEAN}

\* the target the pages belong to
LinkDomain == DomainInput("example.com", <<UrlRoot>>, NoneInt, <<>>, <<>>)

\* the link records crawl_domain attaches for the info of a page; the
\* statuses are those of probes that all raised
ExtractLinks ==
  /\ link_data # <<>>
  /\ LET info == _extract_links_and_index_info(link_data[1], LinkDomain) IN
       link_page' =
         <<[internal_links |-> LinkRecords(info.internal_links_urls, EmptyDict),
            external_links |-> LinkRecords(info.external_links_urls, EmptyDict)]>>
  /\ UNCHANGED <<statusFile, statusLog, pc, read_status, link_data, poolVars, jobsVars>>
  /\ UNCHANGED jobVars
  /\ UNCHANGED crawlVars

LinksInit ==
  /\ link_data \in {<<d>> : d \in LinkDatas}
  /\ link_page = <<>>
  /\ statusFile = <<>>
  /\ statusLog = <<>>
  /\ pc = "idle"
  /\ body = <<>>
  /\ cfg = CrawlConfig(DefaultRetries, MaxPagesBound)
  /\ domains = <<>>
  /\ target = 0
  /\ reports_out = <<>>
  /\ max_pages = 0
  /\ pages = <<>>
  /\ queue = <<>>
  /\ seen = {}
  /\ link_status_cache = EmptyDict
  /\ bfs = <<>>
  /\ probe_calls = <<>>
  /\ probe_raised = {}
  /\ enqueued = <<>>
  /\ read_status = <<>>
  /\ PoolIdle
  /\ JobsIdle

LinksNext == ExtractLinks

LinksSpec == LinksInit /\ [][LinksNext]_vars

(***************************************************************************)
(* src/core/domain_crawler.py: the thread pool of _probe_link_status_bulk  *)
(*                                                                         *)
(* The BFS loop with the two bulk calls of a page taken apart into the     *)
(* steps of the main thread and of the worker threads.  Of a page only     *)
(* its two URL lists are kept.  pc is "crawl" at the head of the loop,     *)
(* where the page is fetched, "bulk" at the start of a bulk call, and      *)
(* "pool" inside its with block.                                           *)
(***************************************************************************)
LINK_PROBE_WORKERS == 5

\* the internal link lists of a page: none, fewer than the workers, more
InternalBatches ==
  {<<>>, ManyUrls("example.com", 2), ManyUrls("example.com", LINK_PROBE_WORKERS + 1)}

\* the external link lists of a page
ExternalBatches == {<<>>, ManyUrls("other.org", 1)}

\* what the network does for a probe here: it answers 200, or every
\* attempt fails
PoolNets(retries) == {net \in ProbeNets(retries) : net.status = 200}

\* one pass of the loop up to the bulk calls: the page is fetched and
\* appended, and its two URL lists are what is to be probed
PoolFetchPage ==
  /\ pc = "crawl"
  /\ Len(pages) < max_pages
  /\ \E int \in InternalBatches, ext \in ExternalBatches :
       batches' = <<int, ext>>
  /\ pages' = Append(pages, PageCrawlResult(UrlRoot, UrlRoot, 200, TRUE, None, "saved"))
  /\ pc' = "bulk"
  /\ UNCHANGED <<pool_queue, in_flight, completed, futures>>
  /\ UNCHANGED <<statusFile, statusLog, read_status, link_data, link_page, jobsVars>>
  /\ UNCHANGED <<max_pages, queue, seen, link_status_cache, bfs, probe_calls,
                 probe_raised, enqueued>>
  /\ UNCHANGED jobVars

\* the bulk call up to the submits: the cached URLs are answered from the
\* cache and a probe is submitted for each of the others
PoolBulkBegin ==
  /\ pc = "bulk"
  /\ batches # <<>>
  /\ LET to_fetch == ByCached(Head(batches), link_status_cache, FALSE) IN
     IF to_fetch = <<>>
     THEN /\ batches' = Tail(batches)
          /\ pc' = IF Tail(batches) = <<>> THEN "crawl" ELSE "bulk"
          /\ UNCHANGED <<pool_queue, futures, probe_calls>>
     ELSE /\ pool_queue' = to_fetch
          /\ futures' = SeqToSet(to_fetch)
          /\ probe_calls' = probe_calls \o to_fetch
          /\ pc' = "pool"
          /\ UNCHANGED batches
  /\ UNCHANGED <<in_flight, completed>>
  /\ UNCHANGED <<statusFile, statusLog, read_status, link_data, link_page, jobsVars>>
  /\ UNCHANGED <<max_pages, pages, queue, seen, link_status_cache, bfs,
                 probe_raised, enqueued>>
  /\ UNCHANGED jobVars

\* a worker starts the next probe without regard to max_workers
PoolWorkerStartUncapped ==
  /\ pc = "pool"
  /\ pool_queue # <<>>
  /\ in_flight' = in_flight \cup {Head(pool_queue)}
  /\ pool_queue' = Tail(pool_queue)
  /\ UNCHANGED <<batches, completed, futures>>
  /\ UNCHANGED <<statusFile, statusLog, pc, read_status, link_data, link_page, jobsVars>>
  /\ UNCHANGED jobVars
  /\ UNCHANGED crawlVars

\* a worker thread of the executor, of which there are max_workers, takes
\* the next submitted probe
PoolWorkerStart ==
  /\ pc = "pool"
  /\ pool_queue # <<>>
  /\ Cardinality(in_flight) < LINK_PROBE_WORKERS
  /\ in_flight' = in_flight \cup {Head(pool_queue)}
  /\ pool_queue' = Tail(pool_queue)
  /\ UNCHANGED <<batches, completed, futures>>
  /\ UNCHANGED <<statusFile, statusLog, pc, read_status, link_data, link_page, jobsVars>>
  /\ UNCHANGED jobVars
  /\ UNCHANGED crawlVars

\* _probe_link_status_single returns or raises in its worker: it has
\* written the status to the cache when it returns
PoolWorkerFinish ==
  /\ pc = "pool"
  /\ \E u \in in_flight, net \in PoolNets(cfg.retries) :
       LET r == _probe_link_status_single(u, link_status_cache, net, cfg.retries) IN
         /\ link_status_cache' = r.cache
         /\ completed' = completed \cup {[url |-> u, raised |-> r.raised]}
         /\ in_flight' = in_flight \ {u}
  /\ UNCHANGED <<batches, pool_queue, futures>>
  /\ UNCHANGED <<statusFile, statusLog, pc, read_status, link_data, link_page, jobsVars>>
  /\ UNCHANGED <<max_pages, pages, queue, seen, bfs, probe_calls, probe_raised, enqueued>>
  /\ UNCHANGED jobVars

\* as_completed yields a future that is done: future.result() returns the
\* status or raises, and then cache[u] = None
PoolCollect ==
  /\ pc = "pool"
  /\ \E c \in completed :
       /\ completed' = completed \ {c}
       /\ futures' = futures \ {c.url}
       /\ link_status_cache' =
            IF c.raised THEN (c.url :> NoneInt) @@ link_status_cache
            ELSE link_status_cache
       /\ probe_raised' = IF c.raised THEN probe_raised \cup {c.url} ELSE probe_raised
  /\ UNCHANGED <<batches, pool_queue, in_flight>>
  /\ UNCHANGED <<statusFile, statusLog, pc, read_status, link_data, link_page, jobsVars>>
  /\ UNCHANGED <<max_pages, pages, queue, seen, bfs, probe_calls, enqueued>>
  /\ UNCHANGED jobVars

\* every future was yielded: the with block is left and the bulk call returns
PoolBulkEnd ==
  /\ pc = "pool"
  /\ futures = {}
  /\ batches' = Tail(batches)
  /\ pc' = IF Tail(batches) = <<>> THEN "crawl" ELSE "bulk"
  /\ UNCHANGED <<pool_queue, in_flight, completed, futures>>
  /\ UNCHANGED <<statusFile, statusLog, read_status, link_data, link_page, jobsVars>>
  /\ UNCHANGED jobVars
  /\ UNCHANGED crawlVars

PoolInit ==
  /\ pc = "crawl"
  /\ max_pages = MaxPagesBound
  /\ PoolIdle
  /\ JobsIdle
  /\ statusFile = <<>>
  /\ statusLog = <<>>
  /\ body = <<>>
  /\ cfg = CrawlConfig(DefaultRetries, MaxPagesBound)
  /\ domains = <<>>
  /\ target = 0
  /\ reports_out = <<>>
  /\ pages = <<>>
  /\ queue = <<>>
  /\ seen = {}
  /\ link_status_cache = EmptyDict
  /\ bfs = <<>>
  /\ probe_calls = <<>>
  /\ probe_raised = {}
  /\ enqueued = <<>>
  /\ read_status = <<>>
  /\ link_data = <<>>
  /\ link_page = <<>>

PoolNext ==
  \/ PoolFetchPage
  \/ PoolBulkBegin
  \/ PoolWorkerStart
  \/ PoolWorkerFinish
  \/ PoolCollect
  \/ PoolBulkEnd

PoolSpec == PoolInit /\ [][PoolNext]_vars

(***************************************************************************)
(* backend/app/main.py, service_crawler.py: several jobs                   *)
(*                                                                         *)
(* Every POST /crawl/ writes the pending document of a new job and hands   *)
(* its worker to the background tasks, which run it in a thread of its     *)
(* own; nothing keeps a second request from arriving while a worker runs.  *)
(* Of a worker the writes of crawl_status.json are kept.                   *)
(***************************************************************************)
\* what the writes of a job leave alone
jobsFrame == <<pc, read_status, link_data, link_page, poolVars, jobVars, crawlVars>>

\* the document of job j; as in StatusDoc the message text is not kept
JobDoc(j, status) ==
  [job_id |-> j, status |-> status, message |-> "", reports |-> <<>>]

\* start_crawl_job for a new job id
JobAccept(j) ==
  /\ job_pc[j] = "new"
  /\ WriteStatus(JobDoc(j, "pending"))
  /\ accepted' = Append(accepted, j)
  /\ job_pc' = [job_pc EXCEPT ![j] = "pending"]
  /\ UNCHANGED jobsFrame

\* the worker of job j writes the running document
JobRunBegin(j) ==
  /\ job_pc[j] = "pending"
  /\ WriteStatus(JobDoc(j, "running"))
  /\ job_pc' = [job_pc EXCEPT ![j] = "running"]
  /\ UNCHANGED <<accepted, jobsFrame>>

\* the worker of job j writes the done or the failed document
JobRunEnd(j) ==
  /\ job_pc[j] = "running"
  /\ \E status \in {"done", "failed"} : WriteStatus(JobDoc(j, status))
  /\ job_pc' = [job_pc EXCEPT ![j] = "finished"]
  /\ UNCHANGED <<accepted, jobsFrame>>

JobsNext ==
  \/ \E j \in Jobs : JobAccept(j)
  \/ \E j \in Jobs : JobRunBegin(j)
  \/ \E j \in Jobs : JobRunEnd(j)

JobsSpec == Init /\ [][JobsNext]_vars

(***************************************************************************)
(* Properties                                                              *)
(***************************************************************************)
\* the reports the status document holds, <<>> while there is no document
StatusReports == IF statusFile = <<>> THEN <<>> ELSE statusFile[1].reports

\* the page budget crawl_domain works with for target i
EffectiveBudget(i) == IntOr(domains[i].max_pages, cfg.max_pages_per_domain)

\* C1: with a page budget of at least 1, the pages of a crawl never
\* outnumber the budget: not while crawl_domain runs, not in the report it
\* returns, and not in the reports the status document holds
C1_PagesWithinBudget ==
  /\ max_pages >= 1 => Len(pages) <= max_pages
  /\ \A i \in 1..Len(reports_out) :
       EffectiveBudget(i) >= 1 => Len(reports_out[i].pages) <= EffectiveBudget(i)
  /\ \A i \in 1..Len(StatusReports) :
       EffectiveBudget(i) >= 1 => Len(StatusReports[i].pages) <= EffectiveBudget(i)

\* the budget of more than one page is used up while URLs are still queued
C1_Witness ==
  /\ pc = "crawl"
  /\ max_pages > 1
  /\ Len(pages) = max_pages
  /\ queue # <<>>

\* no two pages of ps carry the same url
NoUrlTwice(ps) == \A i, j \in 1..Len(ps) : i # j => ps[i].url # ps[j].url

\* C2: no URL is the url of two pages of a crawl, so every URL is fetched as
\* a page at most once, in crawl_domain and in every report
C2_NoUrlFetchedTwice ==
  /\ NoUrlTwice(pages)
  /\ \A i \in 1..Len(reports_out) : NoUrlTwice(reports_out[i].pages)
  /\ \A i \in 1..Len(StatusReports) : NoUrlTwice(StatusReports[i].pages)

\* a cycle: the second page links back to the first page and to itself
C2_Witness ==
  /\ Len(pages) >= 2
  /\ \E k \in 1..Len(pages[2].internal_links) :
       pages[2].internal_links[k].url = pages[1].url
  /\ \E k \in 1..Len(pages[2].internal_links) :
       pages[2].internal_links[k].url = pages[2].url

\* s is t with some of its elements left out
RECURSIVE IsSubsequence(_, _)
IsSubsequence(s, t) ==
  IF s = <<>> THEN TRUE
  ELSE IF t = <<>> THEN FALSE
  ELSE IF s[1] = t[1] THEN IsSubsequence(Tail(s), Tail(t))
  ELSE IsSubsequence(s, Tail(t))

\* C3: the statuses written to crawl_status.json for a job are a subsequence
\* of pending, running, done or of pending, running, failed, and a done or
\* failed is written only after a running
C3_StatusSequence ==
  /\ \/ IsSubsequence(statusLog, <<"pending", "running", "done">>)
     \/ IsSubsequence(statusLog, <<"pending", "running", "failed">>)
  /\ \A i \in 1..Len(statusLog) :
       statusLog[i] \in {"done", "failed"} =>
         \E j \in 1..(i - 1) : statusLog[j] = "running"

\* a job that went through pending and running and was written done
C3_Witness ==
  /\ pc = "finished"
  /\ statusLog = <<"pending", "running", "done">>
  /\ reports_out # <<>>

\* the status document is the failed one with the message of exception e
FailedWith(e) ==
  /\ statusFile # <<>>
  /\ statusFile[1].status = "failed"
  /\ statusFile[1].message = "Error: " \o e

\* C4: a page fetch that ends in a network error after its retries is
\* recorded as a fetch_failed page and the crawl goes on; the job is never
\* written failed with the error of that fetch
C4_NetworkErrorIsRecorded == ~FailedWith("RequestError")

\* C5: a page whose HTML extraction throws is recorded and the crawl goes
\* on; the job is never written failed with the error of the extraction
C5_ExtractionErrorIsRecorded == ~FailedWith("ParserError")

\* C6: a job written failed while its k-th target is crawled holds exactly
\* the reports of targets 1..k-1, in target order: the reports appended so
\* far, one for each earlier target and under that target's name
C6_FailedKeepsCompletedReports ==
  (statusFile # <<>> /\ statusFile[1].status = "failed") =>
    /\ statusFile[1].reports = reports_out
    /\ Len(statusFile[1].reports) = target - 1
    /\ \A i \in 1..Len(statusFile[1].reports) :
         statusFile[1].reports[i].domain = domains[i].domain

\* the second target failed and the report of the first is in the document
C6_Witness ==
  /\ statusFile # <<>>
  /\ statusFile[1].status = "failed"
  /\ target = 2
  /\ Len(statusFile[1].reports) = 1
  /\ Len(statusFile[1].reports[1].pages) >= 1

\* page p was fetched with a status outside [200, 400)
BadStatus(p) == ~(200 <= IntOr(p.status, 0) /\ IntOr(p.status, 0) < 400)

\* page p is a fetch_failed record without links
FetchFailedRecord(p) ==
  /\ p.ok = FALSE
  /\ p.error = "fetch_failed"
  /\ p.internal_links = <<>>
  /\ p.external_links = <<>>

\* every page of ps with a status outside [200, 400) is a fetch_failed
\* record, and ps has nothing but that page when it began with it from a
\* single seed
BadStatusPages(ps, seeds) ==
  /\ \A i \in 1..Len(ps) : BadStatus(ps[i]) => FetchFailedRecord(ps[i])
  /\ (Len(ps) >= 1 /\ Len(seeds) = 1 /\ BadStatus(ps[1])) => Len(ps) = 1

\* C7: a page fetched with a status outside [200, 400) is recorded with
\* ok false, error fetch_failed and no links; the step that records it
\* enqueues nothing; and a crawl whose only seed is such a page ends with
\* the one-page report
C7_BadStatusPage ==
  /\ [](/\ (pc \in {"crawl", "expand"} =>
              BadStatusPages(pages, SeedQueue(domains[target].start_urls,
                                              domains[target], <<>>)))
        /\ \A i \in 1..Len(reports_out) :
             BadStatusPages(reports_out[i].pages,
                            SeedQueue(domains[i].start_urls, domains[i], <<>>)))
  /\ [][(Len(pages') = Len(pages) + 1 /\ BadStatus(pages'[Len(pages')])) =>
          (queue' = Tail(queue) /\ bfs' = <<>> /\ pc' = "crawl")]_vars

\* the report of a target with one seed is the single page of status 500
C7_Witness ==
  /\ reports_out # <<>>
  /\ Len(domains[1].start_urls) = 1
  /\ Len(reports_out[1].pages) = 1
  /\ reports_out[1].pages[1].status = 500
  /\ reports_out[1].pages[1].error = "fetch_failed"

\* C8: every URL in the frontier queue, seed or discovered link, is allowed
\* for the target by is_url_allowed_for_domain
C8_QueueInScope ==
  pc \in {"crawl", "expand"} =>
    \A k \in 1..Len(queue) : is_url_allowed_for_domain(queue[k], domains[target])

\* a page whose HTML links to /wp-admin/, which the target blocks, and to
\* another site was expanded and only the allowed link is queued
C8_Witness ==
  /\ pc = "crawl"
  /\ domains[target].blocked_paths # <<>>
  /\ Len(pages) = 1
  /\ pages[1].index_status = "noindex"
  /\ queue = <<UrlBlogA>>

\* the link records of the pages ps
LinkRecordsOf(ps) ==
  UNION {SeqToSet(ps[i].internal_links) \cup SeqToSet(ps[i].external_links) :
         i \in 1..Len(ps)}

\* C9: in one crawl no URL is probed by more than one fetch, and all link
\* records of a URL carry the same status
C9_ProbedOnce ==
  /\ \A i, j \in 1..Len(probe_calls) : i # j => probe_calls[i] # probe_calls[j]
  /\ \A r1, r2 \in LinkRecordsOf(pages) : r1.url = r2.url => r1.status = r2.status
  /\ \A i \in 1..Len(reports_out) :
       \A r1, r2 \in LinkRecordsOf(reports_out[i].pages) :
         r1.url = r2.url => r1.status = r2.status

\* two pages link to the same URL, which was probed
C9_Witness ==
  \E i, j \in 1..Len(pages) :
    /\ i # j
    /\ \E r1 \in LinkRecordsOf(<<pages[i]>>), r2 \in LinkRecordsOf(<<pages[j]>>) :
         /\ r1.url = r2.url
         /\ r1.url \in SeqToSet(probe_calls)

\* C10: the enqueue loop appends a URL to the queue only while
\* len(pages) + len(queue) is below max_pages
C10_EnqueueBelowBudget ==
  [][(pc = "expand" /\ Len(queue') > Len(queue)) =>
       Len(pages) + Len(queue) < max_pages]_vars

\* what bounds the rest of the BFS loop: the pages the budget still allows,
\* the links the enqueue loop still has to look at, the URLs queued
Variant == <<max_pages - Len(pages), Len(bfs), Len(queue)>>

\* a comes before b in the lexicographic order of triples of naturals
LexLess(a, b) ==
  \/ a[1] < b[1]
  \/ a[1] = b[1] /\ a[2] < b[2]
  \/ a[1] = b[1] /\ a[2] = b[2] /\ a[3] < b[3]

\* C11: crawl_domain comes to an end, each fetch and probe returning or
\* raising: while it runs its next step is defined and every step that stays
\* in the loop takes the variant, a triple of naturals, down in the
\* lexicographic order; and when it returns its report the queue is empty
\* or the number of pages is max_pages
C11_CrawlTerminates ==
  /\ [](pc \in {"crawl", "expand"} =>
          /\ \A k \in 1..3 : Variant[k] \in Nat
          /\ pc = "expand" => bfs # <<>>)
  /\ [][(pc \in {"crawl", "expand"} /\ pc' \in {"crawl", "expand"}) =>
          LexLess(Variant', Variant)]_vars
  /\ [][(pc = "crawl" /\ pc' = "running") =>
          (queue = <<>> \/ Len(pages) = max_pages)]_vars

\* crawl_domain returned with the budget of more than one page used up and
\* URLs left in the queue
C11_Witness ==
  /\ pc = "running"
  /\ Len(reports_out) = 1
  /\ max_pages > 1
  /\ Len(reports_out[1].pages) = max_pages
  /\ queue # <<>>

\* C12: once the worker of an accepted job has ended, by returning or by an
\* exception, the persisted status of the job is done or failed
C12_WorkerRecordsTerminal ==
  pc \in {"finished", "escaped"} =>
    /\ statusFile # <<>>
    /\ statusFile[1].status \in {"done", "failed"}

\* a job document: a dict with one of the job's statuses and reports that
\* are absent, null or a list of reports with all their fields
ValidJobDocument(file) ==
  /\ file # <<>>
  /\ file[1].kind = "json"
  /\ file[1].value.type = "dict"
  /\ ~file[1].value.falsy
  /\ file[1].value.status # <<>>
  /\ file[1].value.status[1] \in JobStatuses
  /\ ~ReadRaises(file[1].value)

\* C13: for a status file that is missing or corrupt (no JSON, or JSON that
\* is no valid job document) get_crawl_status returns status idle
C13_CorruptReadsIdle ==
  (read_status # <<>> /\ ~ValidJobDocument(statusFile)) =>
    read_status[1].status = "idle"

\* C14: while the job is running the persisted document carries the report
\* of every target whose crawl has completed
C14_ReportsVisibleWhileRunning ==
  (statusFile # <<>> /\ statusFile[1].status = "running") =>
    statusFile[1].reports = reports_out

\* the path of an absolute URL: what follows scheme and host, up to "?" or "#"
UrlparsePath(url) ==
  LET rest == From(url, Find(url, "://") + 2)
      j == Find(rest, "/")
      tail == IF j = 0 THEN "" ELSE From(rest, j - 1)
      q == Find(tail, "?")
      h == Find(tail, "#")
      cut == IF q = 0 THEN h ELSE IF h = 0 THEN q ELSE IF q < h THEN q ELSE h
  IN IF cut = 0 THEN tail ELSE SubSeq(tail, 1, cut - 1)

\* the targets whose blocked paths are "/wp-admin/"
BlocksWpAdmin(domain) == domain.blocked_paths = <<"/wp-admin/">>

\* C15: for a target with blocked_paths ["/wp-admin/"] no page whose url
\* has a path beginning with /wp-admin/ is among the pages, neither while
\* the target is crawled nor in its report
C15_BlockedPrefixNeverCrawled ==
  /\ (pc \in {"crawl", "expand"} /\ BlocksWpAdmin(domains[target])) =>
       \A k \in 1..Len(pages) : ~StartsWith(UrlparsePath(pages[k].url), "/wp-admin/")
  /\ \A i \in 1..Len(reports_out) :
       BlocksWpAdmin(domains[i]) =>
         \A k \in 1..Len(reports_out[i].pages) :
           ~StartsWith(UrlparsePath(reports_out[i].pages[k].url), "/wp-admin/")

\* the report of a target that blocks /wp-admin/ and had it as a seed: the
\* page that links to /wp-admin/ was crawled and the queue ran empty below
\* the budget
C15_Witness ==
  /\ pc = "running"
  /\ Len(reports_out) = 1
  /\ BlocksWpAdmin(domains[1])
  /\ UrlAdmin \in SeqToSet(domains[1].start_urls)
  /\ Len(reports_out[1].pages) = 1
  /\ max_pages = 2
  /\ reports_out[1].pages[1].meta_robots = DocLinks.robots
  /\ queue = <<>>

\* C16: for a target with allowed_paths ["/blog/"] every page of its
\* report that is no seed has a url whose path begins with /blog/
C16_AllowedPrefixOnly ==
  \A i \in 1..Len(reports_out) :
    domains[i].allowed_paths = <<"/blog/">> =>
      \A k \in 1..Len(reports_out[i].pages) :
        \/ reports_out[i].pages[k].url \in SeqToSet(domains[i].start_urls)
        \/ StartsWith(UrlparsePath(reports_out[i].pages[k].url), "/blog/")

\* host_key, evaluated once for every URL and every target's domain
RegistrableDomain ==
  [u \in AllUrls \cup {d.domain : d \in AllDomains} |-> host_key(u)]

\* every internal link record of the pages ps is on the registrable domain
\* of the target domain
InternalLinksOnDomain(ps, domain) ==
  \A k \in 1..Len(ps) :
    \A l \in 1..Len(ps[k].internal_links) :
      RegistrableDomain[ps[k].internal_links[l].url] = RegistrableDomain[domain.domain]

\* C17: every link record in the internal_links of a page, of the running
\* crawl or of a report, has the registrable domain of the crawl target
C17_InternalLinksSameDomain ==
  /\ pc \in {"crawl", "expand"} => InternalLinksOnDomain(pages, domains[target])
  /\ \A i \in 1..Len(reports_out) :
       InternalLinksOnDomain(reports_out[i].pages, domains[i])

\* a report whose page records an internal link to a subdomain of the
\* target
C17_Witness ==
  /\ Len(reports_out) = 1
  /\ RegistrableDomain[domains[1].domain] = "example.com"
  /\ \E k \in 1..Len(reports_out[1].pages) :
       /\ \E l \in 1..Len(reports_out[1].pages[k].internal_links) :
            reports_out[1].pages[k].internal_links[l].url = UrlSubBlog
       /\ reports_out[1].pages[k].external_links = <<>>

\* every link record of the pages ps for a URL of urls has status None
RecordsNone(ps, urls) ==
  \A k \in 1..Len(ps) :
    /\ \A l \in 1..Len(ps[k].internal_links) :
         ps[k].internal_links[l].url \in urls =>
           ps[k].internal_links[l].status = NoneInt
    /\ \A l \in 1..Len(ps[k].external_links) :
         ps[k].external_links[l].url \in urls =>
           ps[k].external_links[l].status = NoneInt

\* C18: a URL whose probe raised is cached with status None and every link
\* record for it carries None; and the pass in which a probe raises does
\* not stop the crawl: the page is appended with a link record for the
\* URL and the BFS loop goes on
C18_ProbeFailureIsNull ==
  /\ [](pc \in {"crawl", "expand"} =>
          /\ \A u \in probe_raised :
               u \in DOMAIN link_status_cache /\ link_status_cache[u] = NoneInt
          /\ RecordsNone(pages, probe_raised))
  /\ [][probe_raised' # probe_raised /\ probe_raised' # {} =>
          /\ pc' \in {"crawl", "expand"}
          /\ Len(pages') = Len(pages) + 1
          /\ \A u \in probe_raised' \ probe_raised :
               \E l \in 1..Len(pages'[Len(pages')].internal_links
                                 \o pages'[Len(pages')].external_links) :
                 (pages'[Len(pages')].internal_links
                    \o pages'[Len(pages')].external_links)[l] =
                   [url |-> u, status |-> NoneInt]]_vars

\* the probe of a link of the first page raised, and a second page that
\* links to the same URL was crawled and records it
C18_Witness ==
  /\ pc \in {"crawl", "expand"}
  /\ Len(pages) = 2
  /\ \E u \in probe_raised :
       /\ \E l \in 1..Len(pages[1].internal_links) : pages[1].internal_links[l].url = u
       /\ \E l \in 1..Len(pages[2].internal_links) : pages[2].internal_links[l].url = u

\* C19: a crawl request whose domain is empty or blank yields no target:
\* nothing is crawled for it and the job does not fail over it
C19_BlankDomainIsNoTarget ==
  (body # <<>> /\ Strip(body[1].domain) = "" /\ pc \notin {"idle", "pending", "escaped"}) =>
    /\ domains = <<>>
    /\ pc \notin {"crawl", "expand"}
    /\ statusFile[1].status # "failed"

\* the index status the rules give for a meta robots directive
IndexStatusOf(robots) ==
  IF robots = None \/ robots = "" THEN "unknown"
  ELSE IF Contains(Lower(robots), "noindex") THEN "noindex"
  ELSE "index"

\* C20: every page that was fetched and extracted has the index_status of
\* the rules: noindex for a directive that contains "noindex" in any case,
\* index for another non-empty directive, unknown for none
C20_IndexStatusOfRules ==
  pc \in {"crawl", "expand"} =>
    \A k \in 1..Len(pages) :
      (pages[k].ok /\ pages[k].extracted_path # None) =>
        /\ pages[k].index_status \in {"index", "noindex", "unknown"}
        /\ pages[k].index_status = IndexStatusOf(pages[k].meta_robots)

\* the urls of the pages ps, in order
PageUrls(ps) == [k \in 1..Len(ps) |-> ps[k].url]

\* C21: the pages are in the order in which their URLs were first appended
\* to the queue: the page urls followed by the queue are the URLs enqueued,
\* in order, so the distance from the seeds does not decrease along the
\* pages; and the report carries the pages in that order
C21_PagesInEnqueueOrder ==
  /\ [](pc \in {"crawl", "expand"} =>
          /\ PageUrls(pages) \o queue = [i \in 1..Len(enqueued) |-> enqueued[i].url]
          /\ \A i, j \in 1..Len(enqueued) :
               i < j => enqueued[i].depth <= enqueued[j].depth)
  /\ [][(pc = "crawl" /\ pc' = "running") =>
          PageUrls(reports_out'[Len(reports_out')].pages) =
            [i \in 1..Len(pages) |-> enqueued[i].url]]_vars

\* a report with the pages of two seeds, in their order, while a link
\* found on the first page, enqueued behind the second seed, is still queued
C21_Witness ==
  /\ pc = "running"
  /\ Len(reports_out) = 1
  /\ PageUrls(reports_out[1].pages) = <<UrlBlogA, UrlRoot>>
  /\ Len(enqueued) = 3
  /\ enqueued[3].depth = 1
  /\ queue = <<enqueued[3].url>>

\* no URL occurs twice among the link records recs
NoUrlRepeated(recs) ==
  \A i, j \in 1..Len(recs) : i # j => recs[i].url # recs[j].url

\* C22: a page has at most 30 internal and at most 10 external link
\* records, and no URL twice within either list
C22_LinkRecordsCappedAndDistinct ==
  link_page # <<>> =>
    /\ Len(link_page[1].internal_links) <= 30
    /\ Len(link_page[1].external_links) <= 10
    /\ NoUrlRepeated(link_page[1].internal_links)
    /\ NoUrlRepeated(link_page[1].external_links)

\* a page with more than 30 internal and more than 10 external links, each
\* of them repeated: the records are cut to 30 and 10
C22_Witness ==
  /\ link_page # <<>>
  /\ Len(link_data[1].internal_links) > 2 * 30
  /\ Len(link_data[1].external_links) > 2 * 10
  /\ Len(link_page[1].internal_links) = 30
  /\ Len(link_page[1].external_links) = 10

\* C23: at most 5 probes are in flight, all of them for URLs of the list
\* of the current page that is being probed; and when the next page is
\* about to be fetched no probe is in flight or waiting, and every URL a
\* probe was submitted for has its cache entry
C23_ProbesFanInPerPage ==
  /\ Cardinality(in_flight) <= 5
  /\ in_flight # {} => (batches # <<>> /\ in_flight \subseteq SeqToSet(Head(batches)))
  /\ pc = "crawl" =>
       /\ in_flight = {}
       /\ pool_queue = <<>>
       /\ completed = {}
       /\ \A u \in SeqToSet(probe_calls) : u \in DOMAIN link_status_cache

\* five probes of the second page are in flight and a sixth waits for a
\* worker
C23_Witness ==
  /\ Len(pages) = 2
  /\ Cardinality(in_flight) = 5
  /\ pool_queue # <<>>

\* C24: when jobs overlap, the persisted document always describes the job
\* accepted last: once start_crawl_job has written a job as pending, no later
\* write puts the status of an earlier job in the document
C24_DocumentOfLatestJob ==
  accepted # <<>> =>
    /\ statusFile # <<>>
    /\ statusFile[1].job_id = accepted[Len(accepted)]

\* the internal links recorded on the ok pages of a report
InternalLinksOfOkPages(ps) ==
  UNION {{ps[k].internal_links[i].url : i \in 1..Len(ps[k].internal_links)} :
           k \in {n \in 1..Len(ps) : ps[n].ok}}

\* every internal link recorded on an ok page is the url of a page
AllLinksCrawled(ps) == InternalLinksOfOkPages(ps) \subseteq SeqToSet(PageUrls(ps))

\* C25: a report with fewer than max_pages pages has every internal link of
\* its ok pages among its page urls, and a report that leaves such a link
\* uncrawled has exactly max_pages pages; the links still queued are dropped
C25_BudgetNeverStarves ==
  [][(pc = "crawl" /\ pc' = "running") =>
       LET ps == reports_out'[Len(reports_out')].pages
       IN /\ Len(ps) < max_pages => AllLinksCrawled(ps)
          /\ ~AllLinksCrawled(ps) => Len(ps) = max_pages]_vars

C25_Witness ==
  /\ pc = "running"
  /\ Len(reports_out) = 1
  /\ Len(reports_out[1].pages) < max_pages
  /\ InternalLinksOfOkPages(reports_out[1].pages) # {}
  /\ AllLinksCrawled(reports_out[1].pages)

\* C26: in the BFS loop the queue holds no URL twice and no seen URL, the
\* seen-set is the set of page urls, and every pop takes an unseen URL and
\* appends exactly one page for it: the skip branch is never taken
C26_QueueDisjointFromSeen ==
  /\ [](pc \in {"crawl", "expand"} =>
          /\ \A i, j \in 1..Len(queue) : i # j => queue[i] # queue[j]
          /\ SeqToSet(queue) \cap seen = {}
          /\ seen = SeqToSet(PageUrls(pages)))
  /\ [][(pc = "crawl" /\ pc' \in {"crawl", "expand"} /\ queue' # queue) =>
          /\ Head(queue) \notin seen
          /\ Len(pages') = Len(pages) + 1
          /\ SubSeq(pages', 1, Len(pages)) = pages
          /\ pages'[Len(pages')].url = Head(queue)
          /\ queue' = Tail(queue)]_vars

\* a page linking to itself and to a new URL: only the new URL is queued
C26_Witness ==
  /\ pc = "crawl"
  /\ Len(pages) = 1
  /\ \E k \in 1..Len(pages[1].internal_links) :
       pages[1].internal_links[k].url = pages[1].url
  /\ queue # <<>>
  /\ pages[1].url \notin SeqToSet(queue)

\* C27: a recorded page has ok true exactly when its fetch status is in
\* [200, 400): no page with such a status is recorded with ok false and
\* error fetch_failed, whatever its body
C27_OkIffStatusBelow400 ==
  \A k \in 1..Len(pages) :
    /\ pages[k].ok <=> (200 <= pages[k].status /\ pages[k].status < 400)
    /\ (200 <= pages[k].status /\ pages[k].status < 400) =>
         pages[k].error # "fetch_failed"

\* C28: the seeds are exempt from the allow-list: the report of a target
\* with allowed_paths, a budget of at least one page and a first seed on the
\* target's domain that no blocked path matches has that seed as its first
\* page, even when no allowed path matches it
C28_SeedExemptFromAllowList ==
  \A i \in 1..Len(reports_out) :
    LET domain == domains[i]
        seed == domain.start_urls[1]
    IN (/\ domain.allowed_paths # <<>>
        /\ domain.blocked_paths = <<>>
        /\ IntOr(domain.max_pages, cfg.max_pages_per_domain) >= 1
        /\ seed \in AllUrls
        /\ RegistrableDomain[seed] = RegistrableDomain[domain.domain])
       => /\ reports_out[i].pages # <<>>
          /\ reports_out[i].pages[1].url = seed

\* no external link record of the pages ps is on the registrable domain of
\* the target domain
ExternalLinksOffDomain(ps, domain) ==
  \A k \in 1..Len(ps) :
    \A l \in 1..Len(ps[k].external_links) :
      RegistrableDomain[ps[k].external_links[l].url] # RegistrableDomain[domain.domain]

\* C29: links are classified against the crawl target: no link record in
\* the external_links of a page has the registrable domain of the target,
\* also for a page reached by a redirect to another domain or declaring a
\* base, canonical or og:url on another domain
C29_ExternalLinksOffTarget ==
  /\ pc \in {"crawl", "expand"} => ExternalLinksOffDomain(pages, domains[target])
  /\ \A i \in 1..Len(reports_out) :
       ExternalLinksOffDomain(reports_out[i].pages, domains[i])

\* C30: for a request with a body, no crawl and no report has more pages
\* than the max_pages of the request; max_pages = 0 gives a report without
\* pages
C30_RequestBudgetRespected ==
  body # <<>> =>
    /\ pc \in {"crawl", "expand"} => Len(pages) <= body[1].max_pages
    /\ \A i \in 1..Len(reports_out) : Len(reports_out[i].pages) <= body[1].max_pages

====
